---- MODULE Spec2Model ----
(***************************************************************************)
(* Model of SNR.py: the three radiometric operations snr, etc and limit    *)
(* over the module-level constant tables.                                  *)
(*                                                                         *)
(* Units.  A count rate is a whole number of 0.01 e/pixel/s, so that        *)
(* dark_current = 0.04 e/pixel/s is 4; read_noise = 10.0 e stays 10.       *)
(* Times are whole ticks.  A run counts them in ticks of 10 s, and then    *)
(* charges in tenths of an electron (grain = 10 charge units per           *)
(* electron), or in ticks of 0.1 s, and then charges in thousandths        *)
(* (grain = 1000).  Surface brightnesses are in tenths of a magnitude      *)
(* (22.0 is 220).                                                          *)
(*                                                                         *)
(* Arithmetic.  A signal-to-noise ratio, which the code obtains with       *)
(* math.sqrt, is carried as sign and square, sgn * sqrt(num / den), and    *)
(* every comparison is made on the squares: the real-number value of each  *)
(* expression.  The floats of the code depart from it by rounding.  Where  *)
(* rounding changes a whole number, in int(math.ceil(x / y)) of a product  *)
(* x = n * y, the model takes what the doubles give: with whole seconds    *)
(* the product and the quotient are exact; with tenths of a second         *)
(* RoundedAbove lists the products whose quotient comes out above n.  In   *)
(* etc the ceiling is taken of a quotient that several roundings precede:  *)
(* where its real-number value is a whole number n the doubles give n or,  *)
(* rounded above, n + 1, and EtcBodyRoundedAbove is the second outcome.    *)
(* Elsewhere rounding in the last place of a value is not modelled.        *)
(***************************************************************************)
EXTENDS Integers, Sequences, FiniteSets, TLC

VARIABLES sky_mu, gamma0, efficiency, dark_current, read_noise,
          pc, frame, result, notified, grain

tables == <<sky_mu, gamma0, efficiency, dark_current, read_noise>>
vars == <<sky_mu, gamma0, efficiency, dark_current, read_noise,
          pc, frame, result, notified, grain>>

(* ---------------------------------------------------------------------- *)
(* Bounds of the model                                                     *)
(* ---------------------------------------------------------------------- *)
MaxTime == 10
MaxSub == 3
MaxBinning == 2
MaxN == 2
MaxTarget == 4
MaxIterations == 3
LargeTarget == 30
MaxFineTarget == 2
MaxFineSub == 3
MaxFineBinning == 2
MaxTripTime == 4

Threads == {1, 2}
Bands == {"g", "r"}
\* the science surface brightnesses the callers pass to snr: 24.5 and 25.0
MuSet == {245, 250}
\* and to etc, brighter ones, for which the exposure stays short: 20.0 and 22.5
MuSetEtc == {200, 225}

(* ---------------------------------------------------------------------- *)
(* Arithmetic helpers                                                      *)
(* ---------------------------------------------------------------------- *)
Abs(x) == IF x < 0 THEN -x ELSE x

Sign(x) == IF x < 0 THEN -1 ELSE IF x = 0 THEN 0 ELSE 1

\* greatest common divisor, to keep fractions in lowest terms
gcd[x \in Nat, y \in Nat] == IF y = 0 THEN x ELSE gcd[y, x % y]

\* int(x / y): the ceiling forgotten (positive x and y)
FloorDiv(x, y) == x \div y

\* int(math.ceil(x / y)) under true division, y # 0
CeilDiv(x, y) == IF y > 0 THEN -((-x) \div y) ELSE -(x \div (-y))

\* The doubles of (n * y) / y for y = sub / 10.0 seconds, sub in 1 .. 4 and
\* n in 1 .. 64: the quotient comes out above n, and its ceiling is n + 1.
RoundedAbove(n, sub) ==
  CASE sub \in {1, 2, 4} -> n \in {3, 6, 12, 24, 29, 48, 53, 58, 63}
    [] sub = 3 -> n \in {7, 14, 28, 56, 61}
    [] OTHER -> FALSE

\* int(math.ceil(x / y)) as the doubles give it, where x is a product n * y
\* whenever it is a multiple of y
CeilOfQuotient(x, y) ==
  IF grain = 1000 /\ y > 0 /\ x > 0 /\ x % y = 0 /\ RoundedAbove(x \div y, y)
  THEN (x \div y) + 1
  ELSE CeilDiv(x, y)

\* 10 ** (-0.4 * mu) in units of 1e-12, mu in tenths of a magnitude
Pow10(mu) ==
  CASE mu = 200 -> 10000
    [] mu = 210 -> 3981
    [] mu = 220 -> 1585
    [] mu = 225 -> 1000
    [] mu = 240 -> 251
    [] mu = 245 -> 158
    [] mu = 250 -> 100

\* gamma0[band] * N * efficiency[band] * 10**(-0.4 * mu), in 0.01 e/pixel/s
\* (gamma0 in 1e7 photons/s, efficiency in percent, Pow10 in 1e-12)
Rate(band, N, mu) == (gamma0[band] * N * efficiency[band] * Pow10(mu)) \div 100000

(* ---------------------------------------------------------------------- *)
(* Results                                                                 *)
(* ---------------------------------------------------------------------- *)
Val0 == [sgn |-> 0, num |-> 0, den |-> 1, total |-> 0, subs |-> 0,
         rate |-> 0, exact |-> FALSE, ongrid |-> FALSE, mu |-> 0]

NoResult == [kind |-> "none", err |-> "", at |-> "", val |-> Val0]

Value(v) == [kind |-> "value", err |-> "", at |-> "", val |-> v]

\* an exception raised to the caller
Error(e, where) == [kind |-> "error", err |-> e, at |-> where, val |-> Val0]

\* the real number sgn * sqrt(num / den)
SnrValue(sgn, num, den) ==
  LET g == gcd[num, den]
  IN  [Val0 EXCEPT !.sgn = sgn, !.num = num \div g, !.den = den \div g]

\* the real number sgn * sqrt(num / (a * den)), cancelled before a * den is formed
SnrRatio(sgn, num, a, den) ==
  LET g == gcd[num, a]
      h == gcd[num \div g, den]
  IN  SnrValue(sgn, (num \div g) \div h, (a \div g) * (den \div h))

\* the division by binning forgotten
NotDivided(x, k) == x

\* x / k for a real x = sgn * sqrt(num / den) and an integer k # 0
DivBy(x, k) ==
  LET g == gcd[x.num, k * k]
  IN  SnrValue(x.sgn * Sign(k), x.num \div g, x.den * ((k * k) \div g))

\* the integer T as such a real
Real(T) == SnrValue(Sign(T), T * T, 1)

\* x < y on such reals: the signs, then the squares (cross-multiplied in lowest terms)
Less(x, y) ==
  LET gn == gcd[x.num, y.num]
      gd == gcd[x.den, y.den]
      l == (x.num \div gn) * (y.den \div gd)
      r == (y.num \div gn) * (x.den \div gd)
  IN  IF x.sgn # y.sgn THEN x.sgn < y.sgn
      ELSE IF x.sgn = 1 THEN l < r
      ELSE IF x.sgn = -1 THEN l > r
      ELSE FALSE

(* ---------------------------------------------------------------------- *)
(* snr                                                                     *)
(* ---------------------------------------------------------------------- *)
\* round_up without the adjustment of total_exp_time
SubExposuresNotAdjusted(total_exp_time, sub_exp_time, round_up) ==
  [number_subs |-> CeilDiv(total_exp_time, sub_exp_time),
   total_exp_time |-> total_exp_time,
   notified |-> round_up /\ total_exp_time % sub_exp_time # 0]

\* Number of sub-exposures and the round_up adjustment (snr 30-34, limit 88-92)
SubExposures(total_exp_time, sub_exp_time, round_up) ==
  LET number_subs == CeilOfQuotient(total_exp_time, sub_exp_time)
      adjust == round_up /\ total_exp_time # number_subs * sub_exp_time
  IN  [number_subs |-> number_subs,
       total_exp_time |-> IF adjust THEN number_subs * sub_exp_time ELSE total_exp_time,
       notified |-> adjust]

\* total_read_noise ** 2 = (math.sqrt(number_subs) * read_noise) ** 2, in charge units
TotalReadNoiseSq(number_subs) == grain * number_subs * read_noise * read_noise

\* the body of snr: the returned value or the exception, with the locals
SnrOf(sci_mu, band, total_exp_time, sub_exp_time, binning, N, round_up) ==
  LET rate_sci == Rate(band, N, sci_mu)
      rate_sky == Rate(band, N, sky_mu[band])
      none == [number_subs |-> 0, total_exp_time |-> total_exp_time, notified |-> FALSE]
  IN  IF sub_exp_time = 0
      THEN [res |-> Error("ZeroDivisionError", "total_exp_time/sub_exp_time"), acc |-> none]
      ELSE
      LET acc == SubExposures(total_exp_time, sub_exp_time, round_up)
          t == acc.total_exp_time
          signal == rate_sci * t
          sky_counts == rate_sky * t
          dark_counts == dark_current * t
          noise2 == signal + sky_counts + dark_counts + TotalReadNoiseSq(acc.number_subs)
      IN  IF acc.number_subs < 0
          THEN [res |-> Error("ValueError", "sqrt(number_subs)"), acc |-> acc]
          ELSE IF noise2 < 0
          THEN [res |-> Error("ValueError", "sqrt(noise)"), acc |-> acc]
          ELSE IF noise2 = 0
          THEN [res |-> Error("ZeroDivisionError", "signal/noise"), acc |-> acc]
          \* (binning * signal / grain) ** 2 / (noise2 / grain), in electrons
          ELSE [res |-> Value(SnrRatio(Sign(binning * signal),
                                       binning * binning * signal * signal, grain, noise2)),
                acc |-> acc]

(* ---------------------------------------------------------------------- *)
(* etc                                                                     *)
(* ---------------------------------------------------------------------- *)
\* snr_target**2 * (rate_sci + rate_sky + dark_current + read_noise**2/sub_exp_time)
\*   / rate_sci**2, as the fraction num / den; target is snr_target / binning.
\* The rates are in charge units per tick: one factor of grain remains after
\* cancelling.
ClosedForm(target, rate_sci, rate_sky, sub_exp_time) ==
  [num |-> grain * target.num * ((rate_sci + rate_sky + dark_current) * sub_exp_time
                                 + TotalReadNoiseSq(1)),
   den |-> target.den * sub_exp_time * rate_sci * rate_sci]

\* etc up to the loop: the exception, or the first number_subs, and whether
\* total_exp_time / sub_exp_time is a whole number
EtcStart(sci_mu, band, snr_target, sub_exp_time, binning, N) ==
  LET rate_sci == Rate(band, N, sci_mu)
      rate_sky == Rate(band, N, sky_mu[band])
  IN  IF binning = 0
      THEN [res |-> Error("ZeroDivisionError", "snr_target/binning"),
            number_subs |-> 0, whole |-> FALSE]
      ELSE IF sub_exp_time = 0
      THEN [res |-> Error("ZeroDivisionError", "read_noise**2/sub_exp_time"),
            number_subs |-> 0, whole |-> FALSE]
      ELSE IF rate_sci = 0
      THEN [res |-> Error("ZeroDivisionError", "/rate_sci**2"),
            number_subs |-> 0, whole |-> FALSE]
      ELSE LET total_exp_time == ClosedForm(DivBy(snr_target, binning), rate_sci, rate_sky,
                                            sub_exp_time)
           \* the ceiling of total_exp_time / sub_exp_time, taken in two steps:
           \* den and sub_exp_time have one sign, and ceil(ceil(x) / k) = ceil(x / k)
           IN  [res |-> NoResult,
                number_subs |-> CeilDiv(CeilDiv(total_exp_time.num, Abs(total_exp_time.den)),
                                        Abs(sub_exp_time)),
                whole |-> /\ total_exp_time.num % Abs(total_exp_time.den) = 0
                          /\ (total_exp_time.num \div Abs(total_exp_time.den))
                               % Abs(sub_exp_time) = 0]

\* the comparison of the guard inverted: snr(...) > snr_target
LoopGuardInverted(s, snr_target, binning) == Less(DivBy(snr_target, binning), s)

\* the guard of the while loop: snr(...) < snr_target, snr_target already divided
LoopGuard(s, snr_target, binning) == Less(s, DivBy(snr_target, binning))

(* ---------------------------------------------------------------------- *)
(* limit                                                                   *)
(* ---------------------------------------------------------------------- *)
\* a * r**2 + b * r + c <= 0 at a rate r >= 0, where
\*   a = total_exp_time**2, b = -snr_target**2 * total_exp_time,
\*   c = -snr_target**2 * (sky_counts + dark_counts + total_read_noise**2) < 0
\* and grain * snr_target**2 = s2.num / s2.den (u and K are in charge units):
\* with u = total_exp_time * r the polynomial is
\* (s2.den * u * u - s2.num * u - s2.num * K) / s2.den.  Since c < 0 this holds
\* exactly for the rates up to the root (-b + math.sqrt(b**2 - 4*a*c)) / (2*a).
RootAtLeast(s2, t, K, r) ==
  LET w == Abs(t) * r
      lin == s2.den * w - Sign(t) * s2.num
  IN  r = 0 \/ lin <= 0 \/ lin <= (s2.num * K) \div w

\* the polynomial is zero at r > 0: r is the root
RootExactly(s2, t, K, r) ==
  LET w == Abs(t) * r
      lin == s2.den * w - Sign(t) * s2.num
  IN  (s2.num * K) % w = 0 /\ lin = (s2.num * K) \div w

\* grain * x**2 in lowest terms, for a real x
ScaledSquare(x) ==
  LET g == gcd[grain, x.den]
  IN  [num |-> (grain \div g) * x.num, den |-> x.den \div g]

\* the first power of two above the root
RECURSIVE Above(_, _, _, _)
Above(s2, t, K, r) == IF RootAtLeast(s2, t, K, r) THEN Above(s2, t, K, 2 * r) ELSE r

\* the largest whole rate up to the root, between lo (up to it) and hi (above it)
RECURSIVE Between(_, _, _, _, _)
Between(s2, t, K, lo, hi) ==
  IF hi = lo + 1 THEN lo
  ELSE LET mid == (lo + hi) \div 2
       IN  IF RootAtLeast(s2, t, K, mid)
           THEN Between(s2, t, K, mid, hi)
           ELSE Between(s2, t, K, lo, mid)

\* rate_sci to the resolution of a whole rate: the floor of the positive root
FloorRoot(s2, t, K) == Between(s2, t, K, 0, Above(s2, t, K, 1))

\* the sign of b**2 + 4*a*c
DiscriminantSignSlip(s2, t, K) == Sign(t * t) * Sign(s2.num) * Sign(s2.num - 4 * s2.den * K)

\* the sign of b**2 - 4*a*c = total_exp_time**2 * s2 * (s2 + 4 * K)
DiscriminantSign(s2, t, K) == Sign(t * t) * Sign(s2.num) * Sign(s2.num + 4 * s2.den * K)

\* the sign of -b + math.sqrt(b**2 - 4*a*c), the discriminant being >= 0
RootSign(s2, t, K) ==
  IF t > 0 THEN Sign(s2.num)
  ELSE IF t = 0 THEN 0
  ELSE Sign(s2.num) * Sign(K)

MuGrid == {200, 210, 220, 225, 240, 245, 250}

\* -2.5 * math.log10(rate_sci / (gamma0[band] * N * efficiency[band])): the inverse of Rate
MuOf(band, N, rate_sci) ==
  LET hit == {mu \in MuGrid : Rate(band, N, mu) = rate_sci}
  IN  IF hit = {} THEN [ongrid |-> FALSE, mu |-> 0]
      ELSE [ongrid |-> TRUE, mu |-> CHOOSE mu \in hit : TRUE]

\* the body of limit: the returned value or the exception, with the locals
LimitOf(band, total_exp_time, snr_target, sub_exp_time, binning, N, round_up) ==
  LET rate_sky == Rate(band, N, sky_mu[band])
      none == [number_subs |-> 0, total_exp_time |-> total_exp_time, notified |-> FALSE]
  IN  IF binning = 0
      THEN [res |-> Error("ZeroDivisionError", "snr_target/binning"), acc |-> none]
      ELSE IF sub_exp_time = 0
      THEN [res |-> Error("ZeroDivisionError", "total_exp_time/sub_exp_time"), acc |-> none]
      ELSE
      LET s2 == ScaledSquare(DivBy(snr_target, binning))
          acc == SubExposures(total_exp_time, sub_exp_time, round_up)
          t == acc.total_exp_time
          sky_counts == rate_sky * t
          dark_counts == dark_current * t
          K == sky_counts + dark_counts + TotalReadNoiseSq(acc.number_subs)
      IN  IF acc.number_subs < 0
          THEN [res |-> Error("ValueError", "sqrt(number_subs)"), acc |-> acc]
          ELSE IF DiscriminantSign(s2, t, K) < 0
          THEN [res |-> Error("ValueError", "sqrt(b**2 - 4*a*c)"), acc |-> acc]
          ELSE IF t = 0
          THEN [res |-> Error("ZeroDivisionError", "/(2*a)"), acc |-> acc]
          ELSE IF N = 0
          THEN [res |-> Error("ZeroDivisionError", "rate_sci/(gamma0*N*efficiency)"), acc |-> acc]
          ELSE IF RootSign(s2, t, K) <= 0
          THEN [res |-> Error("ValueError", "log10(rate_sci)"), acc |-> acc]
          ELSE LET rate_sci == FloorRoot(s2, t, K)
                   m == MuOf(band, N, rate_sci)
               IN  [res |-> Value([Val0 EXCEPT !.rate = rate_sci,
                                               !.exact = (rate_sci > 0
                                                          /\ RootExactly(s2, t, K, rate_sci)),
                                               !.ongrid = m.ongrid, !.mu = m.mu]),
                    acc |-> acc]

(* ---------------------------------------------------------------------- *)
(* State: the module's tables, and per thread the call in progress         *)
(* ---------------------------------------------------------------------- *)
Frame0 == [fn |-> "", sci_mu |-> 0, band |-> "g", total_exp_time |-> 0,
           snr_target |-> Val0, sub_exp_time |-> 0, binning |-> 0, N |-> 0,
           round_up |-> FALSE, number_subs |-> 0, eff_time |-> 0, first_subs |-> 0,
           iterations |-> 0, trip |-> FALSE, snr_round_up |-> FALSE]

\* the arguments callers pass
Valid == [mu |-> MuSet, etc_mu |-> MuSetEtc, time |-> 1..MaxTime, sub |-> 1..MaxSub,
          binning |-> 1..MaxBinning, N |-> 1..MaxN, target |-> 1..MaxTarget,
          limit_target |-> (1..MaxTarget) \cup {LargeTarget}]

\* two threads calling at once
Small == [mu |-> {250}, etc_mu |-> {225}, time |-> {2, 3}, sub |-> {2}, binning |-> {1, 2}, N |-> {1},
          target |-> {1, 2}, limit_target |-> {1, 2}]

\* callers of etc with exposures of tenths of a second: targets in tenths
Fine == [etc_mu |-> {200}, target |-> 1..MaxFineTarget, sub |-> 1..MaxFineSub,
         binning |-> 1..MaxFineBinning, N |-> {1}]

\* callers of snr who pass the value it returned to etc
Trip == [mu |-> MuSet, time |-> 1..MaxTripTime, sub |-> 1..MaxSub,
         binning |-> 1..MaxBinning, N |-> 1..MaxN]

\* callers that do not guard their arguments
Unguarded == [mu |-> {250}, etc_mu |-> {225}, time |-> -2..2, sub |-> -2..2, binning |-> -1..1,
              N |-> 0..1, target |-> {1, 2}, limit_target |-> {1, 2}]

Init ==
  /\ sky_mu = [g |-> 220, r |-> 210]
  /\ gamma0 = [g |-> 179, r |-> 116]
  /\ efficiency = [g |-> 34, r |-> 35]
  /\ dark_current = 4
  /\ read_noise = 10
  /\ pc = [p \in Threads |-> "idle"]
  /\ frame = [p \in Threads |-> Frame0]
  /\ result = [p \in Threads |-> NoResult]
  /\ notified = [p \in Threads |-> FALSE]
  /\ grain = 10

\* the same module, the run counted in ticks of 10 s or of 0.1 s
EtcInit ==
  /\ sky_mu = [g |-> 220, r |-> 210]
  /\ gamma0 = [g |-> 179, r |-> 116]
  /\ efficiency = [g |-> 34, r |-> 35]
  /\ dark_current = 4
  /\ read_noise = 10
  /\ pc = [p \in Threads |-> "idle"]
  /\ frame = [p \in Threads |-> Frame0]
  /\ result = [p \in Threads |-> NoResult]
  /\ notified = [p \in Threads |-> FALSE]
  /\ grain \in {10, 1000}

\* a table scaled in place, as gamma0[band] *= 2 would
TablesRescaled ==
  /\ gamma0' = [b \in Bands |-> 2 * gamma0[b]]
  /\ UNCHANGED <<sky_mu, efficiency, dark_current, read_noise, grain>>

\* no statement of snr, etc or limit assigns to a module-level name
TablesUntouched == UNCHANGED <<tables, grain>>

\* the call is entered: nothing returned or printed yet
Entered(p, label) ==
  /\ pc' = [pc EXCEPT ![p] = label]
  /\ result' = [result EXCEPT ![p] = NoResult]
  /\ notified' = [notified EXCEPT ![p] = FALSE]
  /\ TablesUntouched

Finish(p, res, f, note) ==
  /\ pc' = [pc EXCEPT ![p] = "done"]
  /\ frame' = [frame EXCEPT ![p] = f]
  /\ result' = [result EXCEPT ![p] = res]
  /\ notified' = [notified EXCEPT ![p] = note]
  /\ TablesUntouched

\* a caller invokes snr(sci_mu, band, total_exp_time, sub_exp_time, binning, N, round_up)
CallSnr(p, D) ==
  /\ pc[p] = "idle"
  /\ grain = 10
  /\ \E mu \in D.mu, band \in Bands, t \in D.time, sub \in D.sub,
       b \in D.binning, n \in D.N, ru \in BOOLEAN :
       frame' = [frame EXCEPT ![p] =
                   [Frame0 EXCEPT !.fn = "snr", !.sci_mu = mu, !.band = band,
                                  !.total_exp_time = t, !.sub_exp_time = sub,
                                  !.binning = b, !.N = n, !.round_up = ru]]
  /\ Entered(p, "snr")

\* a caller invokes etc(sci_mu, band, snr_target, sub_exp_time, binning, N)
CallEtc(p, D) ==
  /\ pc[p] = "idle"
  /\ grain = 10
  /\ \E mu \in D.etc_mu, band \in Bands, T \in D.target, sub \in D.sub,
       b \in D.binning, n \in D.N :
       frame' = [frame EXCEPT ![p] =
                   [Frame0 EXCEPT !.fn = "etc", !.sci_mu = mu, !.band = band,
                                  !.snr_target = Real(T), !.sub_exp_time = sub,
                                  !.binning = b, !.N = n]]
  /\ Entered(p, "etc")

\* a caller invokes etc with a target and a sub_exp_time of so many tenths
CallEtcFine(p, D) ==
  /\ pc[p] = "idle"
  /\ grain = 1000
  /\ \E mu \in D.etc_mu, band \in Bands, T \in D.target, sub \in D.sub,
       b \in D.binning, n \in D.N :
       frame' = [frame EXCEPT ![p] =
                   [Frame0 EXCEPT !.fn = "etc", !.sci_mu = mu, !.band = band,
                                  !.snr_target = SnrValue(1, T * T, 100),
                                  !.sub_exp_time = sub, !.binning = b, !.N = n]]
  /\ Entered(p, "etc")

\* a caller invokes limit(band, total_exp_time, snr_target, sub_exp_time, binning, N, round_up)
CallLimit(p, D) ==
  /\ pc[p] = "idle"
  /\ grain = 10
  /\ \E band \in Bands, t \in D.time, T \in D.limit_target, sub \in D.sub,
       b \in D.binning, n \in D.N, ru \in BOOLEAN :
       frame' = [frame EXCEPT ![p] =
                   [Frame0 EXCEPT !.fn = "limit", !.band = band, !.total_exp_time = t,
                                  !.snr_target = Real(T), !.sub_exp_time = sub,
                                  !.binning = b, !.N = n, !.round_up = ru]]
  /\ Entered(p, "limit")

\* a caller passes the value snr returned to limit, with snr's other arguments
CallLimitOfSnr(p) ==
  /\ pc[p] = "done"
  /\ frame[p].fn = "snr"
  /\ result[p].kind = "value"
  /\ \E ru \in BOOLEAN :
       frame' = [frame EXCEPT ![p] =
                   [Frame0 EXCEPT !.fn = "limit", !.sci_mu = frame[p].sci_mu,
                                  !.band = frame[p].band,
                                  !.total_exp_time = frame[p].total_exp_time,
                                  !.snr_target = result[p].val,
                                  !.sub_exp_time = frame[p].sub_exp_time,
                                  !.binning = frame[p].binning, !.N = frame[p].N,
                                  !.round_up = ru, !.trip = TRUE,
                                  !.snr_round_up = frame[p].round_up]]
  /\ Entered(p, "limit")

\* a caller passes the value snr returned to etc, with snr's other arguments
CallEtcOfSnr(p) ==
  /\ pc[p] = "done"
  /\ frame[p].fn = "snr"
  /\ result[p].kind = "value"
  /\ frame' = [frame EXCEPT ![p] =
                [Frame0 EXCEPT !.fn = "etc", !.sci_mu = frame[p].sci_mu,
                               !.band = frame[p].band,
                               !.snr_target = result[p].val,
                               !.sub_exp_time = frame[p].sub_exp_time,
                               !.binning = frame[p].binning, !.N = frame[p].N,
                               !.trip = TRUE]]
  /\ Entered(p, "etc")

\* snr runs and returns or raises
SnrBody(p) ==
  /\ pc[p] = "snr"
  /\ LET f == frame[p]
         r == SnrOf(f.sci_mu, f.band, f.total_exp_time, f.sub_exp_time, f.binning,
                    f.N, f.round_up)
     IN  Finish(p, r.res, [f EXCEPT !.number_subs = r.acc.number_subs,
                                    !.eff_time = r.acc.total_exp_time],
                r.acc.notified)

\* etc up to its while loop
EtcBody(p) ==
  /\ pc[p] = "etc"
  /\ LET f == frame[p]
         r == EtcStart(f.sci_mu, f.band, f.snr_target, f.sub_exp_time, f.binning, f.N)
     IN  IF r.res.kind = "error"
         THEN Finish(p, r.res, f, FALSE)
         ELSE /\ pc' = [pc EXCEPT ![p] = "etc_loop"]
              /\ frame' = [frame EXCEPT ![p] = [f EXCEPT !.number_subs = r.number_subs,
                                                         !.first_subs = r.number_subs]]
              /\ TablesUntouched /\ UNCHANGED <<result, notified>>

\* etc up to its while loop where total_exp_time / sub_exp_time, a whole number
\* n, comes out of the doubles above n: the ceiling is n + 1
EtcBodyRoundedAbove(p) ==
  /\ pc[p] = "etc"
  /\ LET f == frame[p]
         r == EtcStart(f.sci_mu, f.band, f.snr_target, f.sub_exp_time, f.binning, f.N)
     IN  /\ r.res.kind # "error"
         /\ r.whole
         /\ pc' = [pc EXCEPT ![p] = "etc_loop"]
         /\ frame' = [frame EXCEPT ![p] = [f EXCEPT !.number_subs = r.number_subs + 1,
                                                    !.first_subs = r.number_subs + 1]]
         /\ TablesUntouched /\ UNCHANGED <<result, notified>>

\* one evaluation of the while guard: another sub-exposure, or the return
EtcLoop(p) ==
  /\ pc[p] = "etc_loop"
  /\ LET f == frame[p]
         s == SnrOf(f.sci_mu, f.band, f.number_subs * f.sub_exp_time, f.sub_exp_time,
                    f.binning, f.N, FALSE).res
     IN  IF s.kind = "error"
         THEN Finish(p, s, f, FALSE)
         ELSE IF LoopGuard(s.val, f.snr_target, f.binning)
         THEN /\ f.iterations < MaxIterations
              /\ frame' = [frame EXCEPT ![p] = [f EXCEPT !.number_subs = @ + 1,
                                                         !.iterations = @ + 1]]
              /\ TablesUntouched /\ UNCHANGED <<pc, result, notified>>
         ELSE Finish(p, Value([Val0 EXCEPT !.total = f.number_subs * f.sub_exp_time,
                                           !.subs = f.number_subs]),
                     f, FALSE)

\* limit runs and returns or raises
LimitBody(p) ==
  /\ pc[p] = "limit"
  /\ LET f == frame[p]
         r == LimitOf(f.band, f.total_exp_time, f.snr_target, f.sub_exp_time, f.binning,
                      f.N, f.round_up)
     IN  Finish(p, r.res, [f EXCEPT !.number_subs = r.acc.number_subs,
                                    !.eff_time = r.acc.total_exp_time],
                r.acc.notified)

\* the caller takes the outcome; nothing of the call remains
Return(p) ==
  /\ pc[p] = "done"
  /\ pc' = [pc EXCEPT ![p] = "idle"]
  /\ frame' = [frame EXCEPT ![p] = Frame0]
  /\ result' = [result EXCEPT ![p] = NoResult]
  /\ notified' = [notified EXCEPT ![p] = FALSE]
  /\ TablesUntouched

Step(p, D) ==
  \/ CallSnr(p, D)
  \/ CallEtc(p, D)
  \/ CallLimit(p, D)
  \/ CallLimitOfSnr(p)
  \/ SnrBody(p)
  \/ EtcBody(p)
  \/ EtcLoop(p)
  \/ LimitBody(p)
  \/ Return(p)

\* one caller with guarded arguments
Next == Step(1, Valid)

Spec == Init /\ [][Next]_vars

\* one caller of etc, with whole seconds or with tenths; a call that has been
\* entered keeps running, as the interpreter does not stop in the middle of a
\* function body
NextEtc ==
  \/ CallEtc(1, Valid)
  \/ CallEtcFine(1, Fine)
  \/ EtcBody(1)
  \/ EtcLoop(1)
  \/ Return(1)

EtcSpec == EtcInit /\ [][NextEtc]_vars /\ WF_vars(EtcBody(1) \/ EtcLoop(1))

\* one caller who asks etc for the exposure that reaches what snr returned
NextTrip ==
  \/ CallSnr(1, Trip)
  \/ SnrBody(1)
  \/ CallEtcOfSnr(1)
  \/ EtcBody(1)
  \/ EtcBodyRoundedAbove(1)
  \/ EtcLoop(1)
  \/ Return(1)

TripSpec == Init /\ [][NextTrip]_vars

\* two threads
NextConc == \E p \in Threads : Step(p, Small)

ConcSpec == Init /\ [][NextConc]_vars

\* one caller with unguarded arguments
NextUnguarded == Step(1, Unguarded)

UnguardedSpec == Init /\ [][NextUnguarded]_vars

(* ---------------------------------------------------------------------- *)
(* Properties                                                              *)
(* ---------------------------------------------------------------------- *)
\* the arguments satisfy what the operations expect of their caller
Guarded(f) ==
  /\ f.sub_exp_time > 0 /\ f.binning >= 1 /\ f.N >= 1
  /\ f.fn # "etc" => f.total_exp_time > 0

Returned(p, fn) == pc[p] = "done" /\ frame[p].fn = fn /\ result[p].kind = "value"

\* snr(sci_mu, band, t, sub_exp_time, binning, N, round_up) with the arguments of frame f
SnrAt(f, t, round_up) ==
  SnrOf(f.sci_mu, f.band, t, f.sub_exp_time, f.binning, f.N, round_up).res

\* C1: the exposure etc returns reaches the target the caller passed:
\* snr(sci_mu, band, total_exp_time, ..., round_up=False) >= snr_target.
EtcReachesTarget ==
  \A p \in Threads :
    Returned(p, "etc") /\ Guarded(frame[p]) =>
      LET s == SnrAt(frame[p], result[p].val.total, FALSE)
      IN  /\ result[p].val.total = result[p].val.subs * frame[p].sub_exp_time
          /\ s.kind = "value"
          /\ ~Less(s.val, frame[p].snr_target)

\* C2: one sub-exposure fewer than etc returns does not reach the caller's target.
EtcIsMinimal ==
  \A p \in Threads :
    Returned(p, "etc") /\ Guarded(frame[p]) /\ result[p].val.subs >= 2 =>
      LET s == SnrAt(frame[p], (result[p].val.subs - 1) * frame[p].sub_exp_time, FALSE)
      IN  s.kind = "value" /\ Less(s.val, frame[p].snr_target)

\* snr_target_unbinned^2 * (rate_sci + rate_sky + dark_current + read_noise^2/sub_exp_time)
\*   / rate_sci^2 / sub_exp_time for frame f, as numerator and denominator
SubsWanted(f) ==
  LET rate_sci == Rate(f.band, f.N, f.sci_mu)
      rate_sky == Rate(f.band, f.N, sky_mu[f.band])
  IN  [num |-> grain * f.snr_target.num
                 * ((rate_sci + rate_sky + dark_current) * f.sub_exp_time
                    + grain * read_noise * read_noise),
       den |-> f.snr_target.den * f.binning * f.binning * rate_sci * rate_sci
                 * f.sub_exp_time * f.sub_exp_time]

\* C10: the while loop of etc never adds a sub-exposure: its guard is false at the
\* first number_subs, which is the ceiling of the closed form over sub_exp_time,
\* and that number is returned.
EtcLoopNeverIterates ==
  \A p \in Threads :
    frame[p].fn = "etc" /\ Guarded(frame[p]) /\ pc[p] \in {"etc_loop", "done"} =>
      LET f == frame[p]
          w == SubsWanted(f)
      IN  /\ f.iterations = 0
          /\ f.number_subs = f.first_subs
          /\ f.number_subs * w.den >= w.num
          /\ (f.number_subs - 1) * w.den < w.num
          /\ ~LoopGuard(SnrAt(f, f.number_subs * f.sub_exp_time, FALSE).val,
                        f.snr_target, f.binning)
          /\ pc[p] = "done" => /\ result[p].kind = "value"
                               /\ result[p].val.subs = f.first_subs

\* C8: every further sub-exposure strictly increases the SNR the loop of etc
\* computes, and a call of etc that has started returns.
EtcTerminates ==
  /\ [](\A p \in Threads :
          pc[p] = "etc_loop" /\ Guarded(frame[p]) =>
            LET f == frame[p]
            IN  Less(SnrAt(f, f.number_subs * f.sub_exp_time, FALSE).val,
                     SnrAt(f, (f.number_subs + 1) * f.sub_exp_time, FALSE).val))
  /\ \A p \in {1} : (pc[p] = "etc") ~> (pc[p] = "done")

\* etc has returned after its loop added a sub-exposure
EtcReturnedAfterIterating ==
  \E p \in Threads : Returned(p, "etc") /\ frame[p].iterations >= 1

\* C3 as stated: for either setting of round_up, snr does not decrease when
\* total_exp_time grows, also across a multiple of sub_exp_time.
SnrMonotoneInTime ==
  \A p \in Threads :
    Returned(p, "snr") /\ Guarded(frame[p]) =>
      \A t1 \in 1..(frame[p].total_exp_time - 1) :
        ~Less(result[p].val, SnrAt(frame[p], t1, frame[p].round_up).val)

\* C3 amended: snr does not decrease when total_exp_time grows, provided round_up
\* is enabled or both times need the same number of sub-exposures.
SnrMonotoneWhenRounded ==
  \A p \in Threads :
    Returned(p, "snr") /\ Guarded(frame[p]) =>
      \A t1 \in 1..(frame[p].total_exp_time - 1) :
        \/ ~frame[p].round_up
           /\ CeilDiv(t1, frame[p].sub_exp_time) # frame[p].number_subs
        \/ ~Less(result[p].val, SnrAt(frame[p], t1, frame[p].round_up).val)

\* snr has returned, rounding up, for a time that needs more sub-exposures than a
\* shorter one, and the SNR is larger than at the shorter one
SnrGrewAcrossMultiple ==
  \E p \in Threads :
    /\ Returned(p, "snr") /\ frame[p].round_up
    /\ \E t1 \in 1..(frame[p].total_exp_time - 1) :
         /\ CeilDiv(t1, frame[p].sub_exp_time) < frame[p].number_subs
         /\ Less(SnrAt(frame[p], t1, TRUE).val, result[p].val)

\* C4: limit, given the value snr returned and snr's other arguments, with
\* round_up disabled in both calls, solves for the rate_sci of snr and returns
\* the sci_mu snr was given.
LimitInvertsSnr ==
  \A p \in Threads :
    /\ pc[p] = "done" /\ frame[p].fn = "limit" /\ frame[p].trip
    /\ ~frame[p].round_up /\ ~frame[p].snr_round_up /\ Guarded(frame[p])
    => /\ result[p].kind = "value"
       /\ result[p].val.exact
       /\ result[p].val.rate = Rate(frame[p].band, frame[p].N, frame[p].sci_mu)
       /\ result[p].val.ongrid
       /\ result[p].val.mu = frame[p].sci_mu

\* limit has returned from such a round trip, for binned pixels and a time that
\* is no multiple of sub_exp_time
LimitInvertedSnr ==
  \E p \in Threads :
    /\ Returned(p, "limit") /\ frame[p].trip
    /\ ~frame[p].round_up /\ ~frame[p].snr_round_up
    /\ frame[p].binning >= 2
    /\ frame[p].total_exp_time % frame[p].sub_exp_time # 0

\* C5 as stated: limit with a very large snr_target and the shortest
\* total_exp_time fails on a negative discriminant.
LimitFailsOnLargeTarget ==
  \A p \in Threads :
    /\ pc[p] = "done" /\ frame[p].fn = "limit" /\ Guarded(frame[p])
    /\ frame[p].snr_target = Real(LargeTarget) /\ frame[p].total_exp_time = 1
    => /\ result[p].kind = "error"
       /\ result[p].at = "sqrt(b**2 - 4*a*c)"

\* C5 amended: limit with positive arguments never meets a negative discriminant
\* and returns a value, however large snr_target and however short total_exp_time.
LimitAlwaysReturns ==
  \A p \in Threads :
    pc[p] = "done" /\ frame[p].fn = "limit" /\ Guarded(frame[p]) =>
      /\ result[p].kind = "value"
      /\ result[p].val.rate >= 0

\* limit has returned for the largest target and the shortest time
LimitReturnedForLargeTarget ==
  \E p \in Threads :
    /\ Returned(p, "limit")
    /\ frame[p].snr_target = Real(LargeTarget) /\ frame[p].total_exp_time = 1

\* C6: a call with a non-positive total_exp_time, sub_exp_time, binning or N
\* ends in an error.
UnguardedCallRaises ==
  \A p \in Threads :
    pc[p] = "done" /\ ~Guarded(frame[p]) => result[p].kind = "error"

\* C7: in snr and limit alike, number_subs is the ceiling of total_exp_time over
\* sub_exp_time; with round_up and a time that is no multiple of sub_exp_time the
\* counts use number_subs * sub_exp_time and the rounding is notified; otherwise
\* they use the requested time and nothing is notified.
SubExposureAccounting ==
  \A p \in Threads :
    pc[p] = "done" /\ frame[p].fn \in {"snr", "limit"} /\ Guarded(frame[p]) =>
      LET f == frame[p]
          n == f.number_subs
          adjust == f.round_up /\ f.total_exp_time % f.sub_exp_time # 0
          t == IF adjust THEN n * f.sub_exp_time ELSE f.total_exp_time
          rate_sci == Rate(f.band, f.N, f.sci_mu)
          rate_sky == Rate(f.band, f.N, sky_mu[f.band])
          K == (rate_sky + dark_current) * t + grain * n * read_noise * read_noise
          s2 == ScaledSquare(DivBy(f.snr_target, f.binning))
      IN  /\ n * f.sub_exp_time >= f.total_exp_time
          /\ (n - 1) * f.sub_exp_time < f.total_exp_time
          /\ f.eff_time = t
          /\ notified[p] = adjust
          /\ result[p].kind = "value"
          /\ f.fn = "snr" =>
               result[p].val = SnrValue(1, f.binning * f.binning * rate_sci * rate_sci * t * t,
                                        grain * (rate_sci * t + K))
          /\ f.fn = "limit" =>
               /\ RootAtLeast(s2, t, K, result[p].val.rate)
               /\ ~RootAtLeast(s2, t, K, result[p].val.rate + 1)

\* limit has rounded 10 up to 4 sub-exposures of 3, after snr did the same
RoundedUpToFourSubs ==
  \E p \in Threads :
    /\ Returned(p, "limit") /\ frame[p].trip /\ frame[p].snr_round_up
    /\ frame[p].round_up /\ frame[p].total_exp_time = 10 /\ frame[p].sub_exp_time = 3
    /\ frame[p].number_subs = 4 /\ frame[p].eff_time = 12 /\ notified[p]

\* the loop of etc run to its end from number_subs = n, after k additions
RECURSIVE EtcFrom(_, _, _)
EtcFrom(f, n, k) ==
  LET s == SnrAt(f, n * f.sub_exp_time, FALSE)
  IN  IF s.kind = "error" THEN s
      ELSE IF LoopGuard(s.val, f.snr_target, f.binning)
      THEN IF k = MaxIterations THEN NoResult ELSE EtcFrom(f, n + 1, k + 1)
      ELSE Value([Val0 EXCEPT !.total = n * f.sub_exp_time, !.subs = n])

\* what the call of frame f returns when it runs alone, in one piece
Alone(f) ==
  CASE f.fn = "snr" ->
         SnrOf(f.sci_mu, f.band, f.total_exp_time, f.sub_exp_time, f.binning, f.N,
               f.round_up).res
    [] f.fn = "limit" ->
         LimitOf(f.band, f.total_exp_time, f.snr_target, f.sub_exp_time, f.binning, f.N,
                 f.round_up).res
    [] f.fn = "etc" ->
         LET r == EtcStart(f.sci_mu, f.band, f.snr_target, f.sub_exp_time, f.binning, f.N)
         IN  IF r.res.kind = "error" THEN r.res ELSE EtcFrom(f, r.number_subs, 0)

\* C9: whatever the interleaving of the calls of two threads, the tables and
\* constants keep the values the module gave them, and each call returns what it
\* returns when run alone with the same arguments.
CallsAreIndependent ==
  /\ sky_mu = [g |-> 220, r |-> 210]
  /\ gamma0 = [g |-> 179, r |-> 116]
  /\ efficiency = [g |-> 34, r |-> 35]
  /\ dark_current = 4
  /\ read_noise = 10
  /\ \A p \in Threads : pc[p] = "done" => result[p] = Alone(frame[p])

\* one thread has returned from limit while the other is inside the loop of etc
ReturnedWhileOtherInLoop ==
  /\ Returned(1, "limit") /\ frame[1].trip
  /\ pc[2] = "etc_loop"

====
